---- MODULE Spec2Model ----
(***************************************************************************)
(* Path-addressed JSON editing in the editor page (setAtPath,              *)
(* handleNodeSave) and in the node modal (readValueAtPath,                 *)
(* writeJsonAtPath, coerceInputValue, commitEdit, revertEdit), together    *)
(* with the three stores they read and overwrite: the text buffer          *)
(* (useFile), the parsed-JSON store (useJson) and the graph store          *)
(* (useGraph).                                                             *)
(*                                                                         *)
(* JavaScript values are tagged records [t, v]:                            *)
(*   undefined, null, boolean, number, string (v = sequence of one-char    *)
(*   strings), object (v = function from property names to values, with    *)
(*   Undefined for an absent property), array (v.e = elements, with        *)
(*   Undefined for a hole; v.p = named, non-index properties).             *)
(* A text is [t |-> "json", v |-> value] (a serialization of value, up to  *)
(* whitespace and key order) or [t |-> "raw", v |-> chars] (characters     *)
(* that are not valid JSON, such as `{invalid`, `hi` or the empty text).   *)
(* JSON.stringify turns holes into null and drops the named properties of  *)
(* an array; JSON.parse throws on a raw text.                              *)
(* The stores are cells that their setters overwrite: setContents writes   *)
(* the text buffer and the dirty flag, setJson the parsed-JSON store,      *)
(* setGraph the graph store.                                               *)
(***************************************************************************)
EXTENDS Integers, Sequences, FiniteSets, TLC

VARIABLES
    contents,       \* useFile: the text buffer
    hasChanges,     \* useFile: the dirty flag
    json,           \* useJson: the serialized document of the parsed-JSON store
    graph,          \* useGraph: what setGraph was last given
    nodeData,       \* useGraph.selectedNode as seen by the modal (path and text rows)
    editing,        \* NodeModal state
    draft,          \* NodeModal state
    baseline,       \* NodeModal state
    lastAction,     \* history: the handler that made the last step
    lastOutcome,    \* history: "ok" or "failed" (alert / console.error) of that handler
    lastPath,       \* history: the path of the last edit transaction
    lastCommitted,  \* history: the value the last edit transaction put at the path
    writeLog,       \* history: the stores written by the last handler, in order
    lastRebuild,    \* history: how setGraph(parsed) went in the last commitEdit
    txns,           \* number of edit transactions so far
    fnRoot,         \* function-level checks: the document
    fnPath,         \* function-level checks: the path
    fnValue,        \* function-level checks: the new / proposed value
    fnOp,           \* function-level checks: the function applied
    fnOut           \* function-level checks: its result

vars == <<contents, hasChanges, json, graph, nodeData, editing, draft, baseline,
          lastAction, lastOutcome, lastPath, lastCommitted, writeLog, lastRebuild, txns,
          fnRoot, fnPath, fnValue, fnOp, fnOut>>

storeVars == <<contents, hasChanges, json, graph>>
modalVars == <<nodeData, editing, draft, baseline>>
histVars == <<lastAction, lastOutcome, lastPath, lastCommitted, writeLog, lastRebuild, txns>>
fnVars == <<fnRoot, fnPath, fnValue, fnOp, fnOut>>

(***************************************************************************)
(* Bounds                                                                  *)
(***************************************************************************)
\* longest path of an edit
MaxPathLen == 2
\* largest array index used as a path segment
MaxIdx == 1
\* edit transactions (commitEdit, handleNodeSave) in one run
MaxTxns == 2

(***************************************************************************)
(* JavaScript values                                                       *)
(***************************************************************************)
Undefined == [t |-> "undefined", v |-> 0]
Null == [t |-> "null", v |-> 0]
Thrown == [t |-> "thrown", v |-> 0]

Bool(b) == [t |-> "boolean", v |-> b]
Num(n) == [t |-> "number", v |-> n]
Str(cs) == [t |-> "string", v |-> cs]

Idx(n) == [t |-> "index", v |-> n]
Key(s) == [t |-> "key", v |-> s]

\* object keys of the documents and string path segments
DocKeys == {"a", "b"}
\* the property name a path segment addresses: obj[0] is obj["0"]
PropName(seg) == IF seg.t = "index" THEN ToString(seg.v) ELSE seg.v
PropKeys == DocKeys \cup {ToString(i) : i \in 0..MaxIdx}

NoProps == [k \in DocKeys |-> Undefined]
Obj(f) == [t |-> "object", v |-> f]
Arr(es) == [t |-> "array", v |-> [e |-> es, p |-> NoProps]]
EmptyObj == Obj([k \in PropKeys |-> Undefined])
EmptyArr == Arr(<<>>)
\* the object literal { k1: v1 } / { k1: v1, k2: v2 }
Obj1(k, x) == Obj([q \in PropKeys |-> IF q = k THEN x ELSE Undefined])
Obj2(x, y) == Obj([q \in PropKeys |-> IF q = "a" THEN x ELSE IF q = "b" THEN y ELSE Undefined])

IsObject(x) == x.t = "object"
IsArray(x) == x.t = "array"
IsContainer(x) == x.t \in {"object", "array"}
IsNullish(x) == x.t \in {"undefined", "null"}

\* x[seg] for a value x that is neither null nor undefined
getProp(x, seg) ==
    CASE x.t = "object" -> x.v[PropName(seg)]
      [] x.t = "array" ->
            IF seg.t = "index"
            THEN IF seg.v < Len(x.v.e) THEN x.v.e[seg.v + 1] ELSE Undefined
            ELSE x.v.p[seg.v]
      [] x.t = "string" ->
            IF seg.t = "index" /\ seg.v < Len(x.v) THEN Str(<<x.v[seg.v + 1]>>) ELSE Undefined
      [] OTHER -> Undefined

\* x[seg] = val for an object or array x; an index past the end leaves holes
setProp(x, seg, val) ==
    IF x.t = "object"
    THEN Obj([x.v EXCEPT ![PropName(seg)] = val])
    ELSE IF seg.t = "index"
         THEN [x EXCEPT !.v.e =
                 [i \in 1..(IF seg.v < Len(x.v.e) THEN Len(x.v.e) ELSE seg.v + 1) |->
                     IF i = seg.v + 1 THEN val
                     ELSE IF i <= Len(x.v.e) THEN x.v.e[i] ELSE Undefined]]
         ELSE [x EXCEPT !.v.p[seg.v] = val]

(***************************************************************************)
(* JSON.stringify and JSON.parse                                           *)
(***************************************************************************)
RECURSIVE toJSON(_)
toJSON(x) ==
    CASE x.t = "object" ->
            Obj([k \in PropKeys |-> IF x.v[k] = Undefined THEN Undefined ELSE toJSON(x.v[k])])
      [] x.t = "array" ->
            Arr([i \in 1..Len(x.v.e) |->
                    IF x.v.e[i] = Undefined THEN Null ELSE toJSON(x.v.e[i])])
      [] OTHER -> x

JSONstringify(x) == [t |-> "json", v |-> toJSON(x)]
JSONparse(text) == IF text.t = "json" THEN text.v ELSE Thrown
Raw(cs) == [t |-> "raw", v |-> cs]

(***************************************************************************)
(* part_000: setAtPath                                                     *)
(***************************************************************************)
\* setAtPath that assigns at the first token and forgets the rest of the path
setAtPathFirstTokenOnly(root, tokens, value) ==
    IF Len(tokens) = 0 THEN value
    ELSE LET cloned == IF IsArray(root) THEN Arr(root.v.e)
                       ELSE IF IsObject(root) THEN root
                       ELSE IF Head(tokens).t = "index" THEN EmptyArr ELSE EmptyObj
         IN setProp(cloned, Head(tokens), value)

\* setAtPath that starts every level from an empty container instead of a copy
RECURSIVE setAtPathNoCopy(_, _, _)
setAtPathNoCopy(root, tokens, value) ==
    IF Len(tokens) = 0 THEN value
    ELSE LET head == Head(tokens)
             rest == Tail(tokens)
             cloned == IF head.t = "index" THEN EmptyArr ELSE EmptyObj
         IN IF Len(rest) = 0
            THEN setProp(cloned, head, value)
            ELSE setProp(cloned, head,
                         setAtPathNoCopy(IF IsNullish(root) THEN Undefined ELSE getProp(root, head),
                                         rest, value))

RECURSIVE setAtPath(_, _, _)
setAtPath(root, tokens, value) ==
    IF Len(tokens) = 0 THEN value
    ELSE LET head == Head(tokens)
             rest == Tail(tokens)
             cloned == IF IsArray(root) THEN Arr(root.v.e)
                       ELSE IF IsObject(root) THEN root
                       ELSE IF head.t = "index" THEN EmptyArr ELSE EmptyObj
         IN IF Len(rest) = 0
            THEN setProp(cloned, head, value)
            ELSE setProp(cloned, head, setAtPath(getProp(cloned, head), rest, value))

(***************************************************************************)
(* NodeModal/index.tsx: the helpers                                        *)
(***************************************************************************)
RECURSIVE walkOptional(_, _)
walkOptional(current, path) ==
    IF Len(path) = 0 THEN current
    ELSE walkOptional(IF IsNullish(current) THEN Undefined ELSE getProp(current, Head(path)),
                      Tail(path))

readValueAtPath(jsonStr, path) ==
    LET obj == JSONparse(jsonStr)
    IN IF obj = Thrown THEN Null
       ELSE IF Len(path) = 0 THEN obj
       ELSE walkOptional(obj, path)

\* the in-place assignment of writeJsonAtPath, as the object it leaves behind;
\* Thrown where `current[...]` reads or writes a property of null or undefined, or
\* writes one of a primitive (a TypeError in module code; in sloppy code the write
\* is ignored, which leaves the same document as the catch does)
RECURSIVE assignInPlace(_, _, _)
assignInPlace(current, path, newValue) ==
    IF IsNullish(current) THEN Thrown
    ELSE IF Len(path) = 1
         THEN IF IsContainer(current) THEN setProp(current, path[1], newValue) ELSE Thrown
         ELSE LET below == assignInPlace(getProp(current, path[1]), Tail(path), newValue)
              IN IF below = Thrown THEN Thrown
                 ELSE IF IsContainer(current) THEN setProp(current, path[1], below)
                 ELSE current

writeJsonAtPath(jsonStr, path, newValue) ==
    LET obj == JSONparse(jsonStr)
    IN IF obj = Thrown THEN jsonStr
       ELSE IF Len(path) = 0 THEN JSONstringify(newValue)
       ELSE LET written == assignInPlace(obj, path, newValue)
            IN IF written = Thrown THEN jsonStr ELSE JSONstringify(written)

IsBlank(cs) == \A i \in 1..Len(cs) : cs[i] = " "

coerceInputValue(content) ==
    IF content.t = "raw"
    THEN IF IsBlank(content.v) THEN Str(<<>>) ELSE Str(content.v)
    ELSE content.v

\* the truthiness test of `originalFull && ...` and `newValue && ...`
Truthy(x) == ~(IsNullish(x) \/ x = Bool(FALSE) \/ x = Num(0) \/ x = Str(<<>>))
\* typeof x === "object"
TypeofObject(x) == x.t \in {"object", "array", "null"}

\* the merge with the spread operands swapped: { ...newValue, ...originalFull }
mergeEditOldWins(originalFull, newValue) ==
    IF /\ Truthy(originalFull) /\ TypeofObject(originalFull) /\ ~IsArray(originalFull)
       /\ Truthy(newValue) /\ TypeofObject(newValue) /\ ~IsArray(newValue)
    THEN Obj([k \in PropKeys |->
                IF originalFull.v[k] # Undefined THEN originalFull.v[k] ELSE newValue.v[k]])
    ELSE newValue

\* commitEdit: `merged`
mergeEdit(originalFull, newValue) ==
    IF /\ Truthy(originalFull) /\ TypeofObject(originalFull) /\ ~IsArray(originalFull)
       /\ Truthy(newValue) /\ TypeofObject(newValue) /\ ~IsArray(newValue)
    THEN Obj([k \in PropKeys |->
                IF newValue.v[k] # Undefined THEN newValue.v[k] ELSE originalFull.v[k]])
    ELSE newValue

(***************************************************************************)
(* Inputs                                                                  *)
(***************************************************************************)
Chars == <<"h", "i">>
Leaves == {Null, Num(1), Str(Chars)}
OrAbsent(S) == S \cup {Undefined}
ArraysOf(S, T) == {EmptyArr} \cup {Arr(<<x>>) : x \in S} \cup {Arr(<<x, y>>) : x \in S, y \in T}
ObjectsOf(S, T) == {Obj2(x, y) : x \in OrAbsent(S), y \in OrAbsent(T)}
Shallow == Leaves \cup ArraysOf(Leaves, {Num(1)}) \cup ObjectsOf(Leaves, Leaves)
\* the documents: JSON values nested two containers deep
Docs == Shallow \cup {Bool(TRUE)} \cup ArraysOf(Shallow, {Num(1)}) \cup ObjectsOf(Shallow, {Num(1)})
\* new and proposed values, told apart from the documents' contents by the number 2
Values == {Null, Bool(TRUE), Num(2), Str(<<"i">>), Arr(<<Num(2)>>),
           Obj1("a", Num(2)), Obj1("b", Num(2))}
Segs == {Key(k) : k \in DocKeys} \cup {Idx(i) : i \in 0..MaxIdx}
Paths == UNION {[1..n -> Segs] : n \in 0..MaxPathLen}
\* what the user can type into the modal's text area
BadText == Raw(<<"{", "i">>)
DraftTexts == {JSONstringify(Num(2)), JSONstringify(Obj1("b", Num(2))), Raw(<<"i">>), Raw(<<" ">>)}

(***************************************************************************)
(* The functions applied to every document, path and value                 *)
(***************************************************************************)
BlankState ==
    /\ contents = JSONstringify(Null) /\ hasChanges = FALSE
    /\ json = JSONstringify(Null) /\ graph = Null
    /\ nodeData = Undefined /\ editing = FALSE /\ draft = Raw(<<>>) /\ baseline = Raw(<<>>)
    /\ lastAction = "init" /\ lastOutcome = "ok" /\ lastPath = <<>>
    /\ lastCommitted = Undefined /\ writeLog = <<>> /\ lastRebuild = "none" /\ txns = 0

FnInit ==
    /\ BlankState
    /\ fnRoot \in Docs /\ fnPath \in Paths /\ fnValue \in Values
    /\ fnOp = "input" /\ fnOut = Undefined

ApplySetAtPath ==
    /\ fnOp = "input"
    /\ fnOp' = "setAtPath"
    /\ fnOut' = setAtPath(fnRoot, fnPath, fnValue)
    /\ UNCHANGED <<storeVars, modalVars, histVars, fnRoot, fnPath, fnValue>>

ApplyReadValueAtPath ==
    /\ fnOp = "input"
    /\ fnOp' = "readValueAtPath"
    /\ fnOut' = readValueAtPath(JSONstringify(fnRoot), fnPath)
    /\ UNCHANGED <<storeVars, modalVars, histVars, fnRoot, fnPath, fnValue>>

ApplyWriteJsonAtPath ==
    /\ fnOp = "input"
    /\ fnOp' = "writeJsonAtPath"
    /\ fnOut' = writeJsonAtPath(JSONstringify(fnRoot), fnPath, fnValue)
    /\ UNCHANGED <<storeVars, modalVars, histVars, fnRoot, fnPath, fnValue>>

ApplyMergeEdit ==
    /\ fnOp = "input"
    /\ fnOp' = "mergeEdit"
    /\ fnOut' = mergeEdit(readValueAtPath(JSONstringify(fnRoot), fnPath), fnValue)
    /\ UNCHANGED <<storeVars, modalVars, histVars, fnRoot, fnPath, fnValue>>

FnNext == ApplySetAtPath \/ ApplyReadValueAtPath \/ ApplyWriteJsonAtPath \/ ApplyMergeEdit

FnSpec == FnInit /\ [][FnNext]_vars

(***************************************************************************)
(* NodeModal/index.tsx: the modal; part_000: the page's handler            *)
(***************************************************************************)
\* the object normalizeNodeData builds from the rows that have a key
rowsObject(nodeRows) ==
    Obj([k \in PropKeys |->
            LET at == {i \in 1..Len(nodeRows) : nodeRows[i].key = k}
            IN IF at = {} THEN Undefined
               ELSE nodeRows[CHOOSE i \in at : \A j \in at : j <= i].value])

\* a row without a key has key ""
normalizeNodeData(nodeRows) ==
    IF Len(nodeRows) = 0 THEN JSONstringify(EmptyObj)
    ELSE IF Len(nodeRows) = 1 /\ nodeRows[1].key = "" THEN JSONstringify(nodeRows[1].value)
    ELSE JSONstringify(rowsObject(nodeRows))

\* String(full) of a primitive: the text of a number or boolean is its JSON text, the
\* text of a string is its characters (letters here, so never valid JSON)
StringOf(full) == IF full.t = "string" THEN Raw(full.v) ELSE JSONstringify(full)

\* the useEffect on [nodeData, opened]
initialText(jsonStr, node) ==
    LET full == readValueAtPath(jsonStr, node.path)
    IN IF ~IsNullish(full)
       THEN IF TypeofObject(full) THEN JSONstringify(full) ELSE StringOf(full)
       ELSE normalizeNodeData(node.text)

\* the positions of a document (the paths that resolve through its containers):
\* the paths the nodes of its graph carry
RECURSIVE Positions(_)
Positions(x) ==
    {<<>>} \cup
    (CASE x.t = "object" ->
            UNION {{<<Key(k)>> \o q : q \in Positions(x.v[k])} :
                      k \in {kk \in PropKeys : x.v[kk] # Undefined}}
       [] x.t = "array" ->
            UNION {{<<Idx(i - 1)>> \o q : q \in Positions(x.v.e[i])} : i \in 1..Len(x.v.e)}
       [] OTHER -> {})

\* the document the graph store was last given, as a value
GraphDoc == IF graph.t \in {"json", "raw"} THEN JSONparse(graph) ELSE graph

\* the text rows of the graph node of a value: one row per primitive property of an
\* object, one row without a key (key "") for a primitive
nodeRows(x) ==
    IF IsObject(x)
    THEN LET a == IF IsContainer(x.v["a"]) \/ x.v["a"] = Undefined THEN <<>>
                  ELSE <<[key |-> "a", value |-> x.v["a"]]>>
             b == IF IsContainer(x.v["b"]) \/ x.v["b"] = Undefined THEN <<>>
                  ELSE <<[key |-> "b", value |-> x.v["b"]]>>
         IN a \o b
    ELSE IF IsArray(x) THEN <<>>
    ELSE <<[key |-> "", value |-> x]>>

\* what a nodeModalSave event can carry
SaveValues == {Num(2), Obj1("b", Num(2))}
SavePaths == {<<>>, <<Key("a")>>, <<Key("a"), Key("b")>>, <<Key("b"), Idx(0)>>}
\* setGraph(parsed) either builds the graph or throws
GraphRebuilds == {"built", "failed"}
InitDocs == {Obj2(Obj2(Num(1), Str(Chars)), Arr(<<Null>>))}

Init ==
    /\ \E d \in InitDocs :
          /\ json = JSONstringify(d)
          /\ graph = d
          /\ contents \in {JSONstringify(d), BadText}
    /\ hasChanges = (contents # json)
    /\ nodeData = Undefined /\ editing = FALSE /\ draft = Raw(<<>>) /\ baseline = Raw(<<>>)
    /\ lastAction = "init" /\ lastOutcome = "ok" /\ lastPath = <<>>
    /\ lastCommitted = Undefined /\ writeLog = <<>> /\ lastRebuild = "none" /\ txns = 0
    /\ fnRoot = Null /\ fnPath = <<>> /\ fnValue = Null /\ fnOp = "none" /\ fnOut = Undefined

\* the history of a step that is no edit transaction
NoTransaction ==
    /\ lastOutcome' = "ok" /\ lastPath' = <<>> /\ lastCommitted' = Undefined
    /\ writeLog' = <<>> /\ lastRebuild' = "none"

\* a node of the graph is clicked (or the modal is opened again on it)
SelectNode(path) ==
    /\ Len(path) <= MaxPathLen
    /\ nodeData' = [path |-> path, text |-> nodeRows(walkOptional(GraphDoc, path))]
    /\ draft' = initialText(json, nodeData')
    /\ baseline' = draft'
    /\ lastAction' = "selectNode"
    /\ NoTransaction
    /\ UNCHANGED <<storeVars, editing, txns, fnVars>>

beginEdit ==
    /\ nodeData # Undefined
    /\ ~editing
    /\ editing' = TRUE
    /\ lastAction' = "beginEdit"
    /\ NoTransaction
    /\ UNCHANGED <<storeVars, nodeData, draft, baseline, txns, fnVars>>

\* the Textarea's onChange
setDraft(text) ==
    /\ editing
    /\ draft' = text
    /\ lastAction' = "setDraft"
    /\ NoTransaction
    /\ UNCHANGED <<storeVars, nodeData, editing, baseline, txns, fnVars>>

\* commitEdit without the inner try/catch: a failed graph build reaches the outer catch
commitEditNoFallback(rebuild) ==
    /\ editing
    /\ draft # baseline
    /\ txns < MaxTxns
    /\ LET newValue == coerceInputValue(draft)
           originalFull == readValueAtPath(json, nodeData.path)
           merged == mergeEdit(originalFull, newValue)
           updated == writeJsonAtPath(json, nodeData.path, merged)
           failed == JSONparse(updated) = Thrown \/ rebuild = "failed"
       IN /\ json' = updated
          /\ contents' = updated
          /\ hasChanges' = TRUE
          /\ graph' = IF failed THEN graph ELSE JSONparse(updated)
          /\ lastRebuild' = IF failed THEN "failed" ELSE rebuild
          /\ lastPath' = nodeData.path
          /\ lastCommitted' = merged
          /\ editing' = failed
          /\ baseline' = IF failed THEN baseline ELSE draft
          /\ writeLog' = IF failed THEN <<"useJson", "useFile">>
                         ELSE <<"useJson", "useFile", "useGraph">>
          /\ lastOutcome' = IF failed THEN "failed" ELSE "ok"
    /\ lastAction' = "commitEdit"
    /\ txns' = txns + 1
    /\ UNCHANGED <<nodeData, draft, fnVars>>

\* Save is rendered in edit mode and disabled while draft = baseline
commitEdit(rebuild) ==
    /\ editing
    /\ draft # baseline
    /\ txns < MaxTxns
    /\ LET newValue == coerceInputValue(draft)
           jsonStr == json
           originalFull == readValueAtPath(jsonStr, nodeData.path)
           merged == mergeEdit(originalFull, newValue)
           updated == writeJsonAtPath(jsonStr, nodeData.path, merged)
       IN /\ json' = updated
          /\ contents' = updated
          /\ hasChanges' = TRUE
          /\ IF JSONparse(updated) = Thrown \/ rebuild = "failed"
             THEN graph' = updated
             ELSE graph' = JSONparse(updated)
          /\ lastRebuild' = IF JSONparse(updated) = Thrown THEN "failed" ELSE rebuild
          /\ lastPath' = nodeData.path
          /\ lastCommitted' = merged
    /\ editing' = FALSE
    /\ baseline' = draft
    /\ writeLog' = <<"useJson", "useFile", "useGraph">>
    /\ lastAction' = "commitEdit"
    /\ lastOutcome' = "ok"
    /\ txns' = txns + 1
    /\ UNCHANGED <<nodeData, draft, fnVars>>

\* revertEdit that leaves edit mode and keeps the draft
revertEditKeepsDraft ==
    /\ editing
    /\ editing' = FALSE
    /\ lastAction' = "revertEdit"
    /\ NoTransaction
    /\ UNCHANGED <<storeVars, nodeData, draft, baseline, txns, fnVars>>

\* Cancel, or Escape in edit mode
revertEdit ==
    /\ editing
    /\ draft' = baseline
    /\ editing' = FALSE
    /\ lastAction' = "revertEdit"
    /\ NoTransaction
    /\ UNCHANGED <<storeVars, nodeData, baseline, txns, fnVars>>

\* the page's listener of the nodeModalSave event
handleNodeSave(path, value) ==
    /\ txns < MaxTxns
    /\ LET currentContents == contents
           currentJson == JSONparse(currentContents)
       IN IF currentJson = Thrown
          THEN /\ lastOutcome' = "failed"
               /\ writeLog' = <<>>
               /\ UNCHANGED <<contents, hasChanges>>
          ELSE /\ contents' = JSONstringify(setAtPath(currentJson, path, value))
               /\ hasChanges' = TRUE
               /\ lastOutcome' = "ok"
               /\ writeLog' = <<"useFile">>
    /\ lastPath' = path
    /\ lastCommitted' = value
    /\ lastAction' = "handleNodeSave"
    /\ lastRebuild' = "none"
    /\ txns' = txns + 1
    /\ UNCHANGED <<json, graph, modalVars, fnVars>>

Next ==
    \/ \E path \in Positions(GraphDoc) : SelectNode(path)
    \/ beginEdit
    \/ \E text \in DraftTexts : setDraft(text)
    \/ \E rebuild \in GraphRebuilds : commitEdit(rebuild)
    \/ revertEdit
    \/ \E path \in SavePaths, value \in SaveValues : handleNodeSave(path, value)

Spec == Init /\ [][Next]_vars

(***************************************************************************)
(* Vocabulary of the properties                                            *)
(***************************************************************************)
NotFound == Undefined

\* the value a text serializes, for a text that is valid JSON
IsValidText(text) == text.t = "json"

\* PathReader of the design: NotFound as soon as the current value is not a
\* container or lacks the segment
RECURSIVE PathReaderGet(_, _)
PathReaderGet(current, path) ==
    IF Len(path) = 0 THEN current
    ELSE IF ~IsContainer(current) THEN NotFound
    ELSE IF getProp(current, Head(path)) = Undefined THEN NotFound
    ELSE PathReaderGet(getProp(current, Head(path)), Tail(path))

\* numeric segments go into sequences and string segments into mappings, wherever
\* the document has a container on the path
RECURSIVE Compatible(_, _)
Compatible(current, path) ==
    IF Len(path) = 0 \/ ~IsContainer(current) THEN TRUE
    ELSE /\ IsArray(current) => Head(path).t = "index"
         /\ IsObject(current) => Head(path).t = "key"
         /\ Compatible(getProp(current, Head(path)), Tail(path))

IsPrefix(p, q) ==
    /\ Len(p) <= Len(q)
    /\ \A i \in 1..Len(p) : PropName(p[i]) = PropName(q[i])

OffPath(q, p) == ~IsPrefix(q, p) /\ ~IsPrefix(p, q)

\* some value on the way to the target is absent, null or not a container
UnresolvedOnTheWay(root, path) ==
    \E n \in 0..(Len(path) - 1) : ~IsContainer(PathReaderGet(root, SubSeq(path, 1, n)))

\* the document a function-level result stands for
FnResultDoc == IF fnOp = "writeJsonAtPath" THEN JSONparse(fnOut) ELSE fnOut
FnOld == readValueAtPath(JSONstringify(fnRoot), fnPath)

(***************************************************************************)
(* C4: the committed value is the shallow merge of old and proposed        *)
(* exactly when both are mappings (proposed keys win, the other keys of    *)
(* old are kept, values are not merged recursively), and the proposed      *)
(* value unchanged in every other case.                                    *)
(***************************************************************************)
MergePolicy ==
    fnOp = "mergeEdit" =>
        IF IsObject(FnOld) /\ IsObject(fnValue)
        THEN /\ IsObject(fnOut)
             /\ \A k \in PropKeys :
                   fnOut.v[k] = IF fnValue.v[k] # Undefined THEN fnValue.v[k] ELSE FnOld.v[k]
        ELSE fnOut = fnValue

MergePolicyWitness ==
    /\ fnOp = "mergeEdit"
    /\ IsObject(FnOld) /\ FnOld.v["a"] = Num(1) /\ FnOld.v["b"] = Str(Chars)
    /\ fnValue = Obj1("b", Num(2))
    /\ fnOut = Obj2(Num(1), Num(2))

(***************************************************************************)
(* C5: reading back at the path what setAtPath wrote there gives the value *)
(* written, for a non-empty path whose segments suit the containers of the *)
(* document; and setAtPath with the empty path returns the value itself.   *)
(***************************************************************************)
RoundTrip ==
    fnOp = "setAtPath" =>
        /\ Len(fnPath) = 0 => fnOut = fnValue
        /\ (Len(fnPath) > 0 /\ Compatible(fnRoot, fnPath)) =>
              readValueAtPath(JSONstringify(fnOut), fnPath) = fnValue

RoundTripWitness ==
    /\ fnOp = "setAtPath"
    /\ Len(fnPath) = 2 /\ Compatible(fnRoot, fnPath)
    /\ IsArray(fnRoot) /\ IsObject(getProp(fnRoot, fnPath[1]))
    /\ PathReaderGet(fnRoot, fnPath) = Num(1)
    /\ fnValue = Arr(<<Num(2)>>)
    /\ readValueAtPath(JSONstringify(fnOut), fnPath) = fnValue

HealsMissingStructure ==
    (fnOp \in {"setAtPath", "writeJsonAtPath"} /\ Len(fnPath) > 0
        /\ Compatible(fnRoot, fnPath) /\ UnresolvedOnTheWay(fnRoot, fnPath)) =>
            readValueAtPath(JSONstringify(FnResultDoc), fnPath) = fnValue

(***************************************************************************)
(* C8: readValueAtPath returns NotFound as soon as the current value is    *)
(* not a container or lacks the segment, the addressed value otherwise,    *)
(* and the root for the empty path.                                        *)
(***************************************************************************)
ReadIsPathReaderGet ==
    fnOp = "readValueAtPath" => fnOut = PathReaderGet(fnRoot, fnPath)

(***************************************************************************)
(* The edit transactions                                                   *)
(***************************************************************************)
Transactions == {"commitEdit", "handleNodeSave"}

\* the position in writeLog of the write to a store, 0 if it was not written
WrittenAt(store) ==
    IF \E i \in 1..Len(writeLog) : writeLog[i] = store
    THEN CHOOSE i \in 1..Len(writeLog) : writeLog[i] = store
    ELSE 0

(***************************************************************************)
(* C1: a commit that starts while the text buffer does not hold valid JSON *)
(* writes no store, leaves the dirty flag alone and reports a failure.     *)
(***************************************************************************)
AbortOnBadDocument ==
    [][(lastAction' \in Transactions /\ ~IsValidText(contents)) =>
          (UNCHANGED <<contents, hasChanges, json, graph>> /\ lastOutcome' = "failed")]_vars

(***************************************************************************)
(* C2: after an edit transaction that completed successfully, the text     *)
(* buffer, the parsed-JSON store and the graph store hold the same JSON    *)
(* value.                                                                  *)
(***************************************************************************)
StoresAgree ==
    (lastAction \in Transactions /\ lastOutcome = "ok") =>
        /\ IsValidText(contents) /\ IsValidText(json)
        /\ JSONparse(contents) = JSONparse(json)
        /\ GraphDoc = JSONparse(json)

(***************************************************************************)
(* C3: the document a successful commit leaves in the text buffer is       *)
(* setAtPath of the document the text buffer held when the commit          *)
(* started, the path and the committed value.                              *)
(***************************************************************************)
TextBufferIsSource ==
    [][(lastAction' \in Transactions /\ lastOutcome' = "ok" /\ IsValidText(contents)) =>
          JSONparse(contents') = toJSON(setAtPath(JSONparse(contents), lastPath', lastCommitted'))]_vars

(***************************************************************************)
(* C9: commitEdit writes the parsed-JSON store and the text buffer with    *)
(* the new document before it refreshes the graph store; when building the *)
(* graph from the parsed document fails, the graph store is given the      *)
(* serialized text, the other two stores keep the new document, edit mode  *)
(* is left and no failure is reported.                                     *)
(***************************************************************************)
GraphRefreshIsBestEffort ==
    [][lastAction' = "commitEdit" =>
          /\ json' = writeJsonAtPath(json, nodeData.path, lastCommitted')
          /\ contents' = json' /\ hasChanges'
          /\ 0 < WrittenAt("useJson")' /\ WrittenAt("useJson")' < WrittenAt("useGraph")'
          /\ 0 < WrittenAt("useFile")' /\ WrittenAt("useFile")' < WrittenAt("useGraph")'
          /\ lastRebuild' = "built" => graph' = JSONparse(json')
          /\ lastRebuild' = "failed" => graph' = json'
          /\ ~editing' /\ lastOutcome' = "ok"]_vars

GraphRefreshWitness ==
    /\ lastAction = "commitEdit" /\ lastRebuild = "failed"
    /\ graph = json /\ contents = json /\ hasChanges
    /\ JSONparse(json) = Obj2(Obj2(Num(2), Str(Chars)), Arr(<<Null>>))
    /\ ~editing /\ lastOutcome = "ok"

(***************************************************************************)
(* C10: outside edit mode the draft is the baseline; revertEdit restores   *)
(* the draft from the baseline and leaves edit mode without writing a      *)
(* store; a successful commitEdit makes the draft the baseline and leaves  *)
(* edit mode; a failed commitEdit stays in edit mode with draft and        *)
(* baseline as they were.                                                  *)
(***************************************************************************)
ModalSession ==
    /\ [](~editing => draft = baseline)
    /\ [][/\ lastAction' = "revertEdit" =>
                /\ draft' = baseline /\ baseline' = baseline /\ ~editing'
                /\ UNCHANGED <<contents, hasChanges, json, graph>>
          /\ (lastAction' = "commitEdit" /\ lastOutcome' = "ok") =>
                /\ baseline' = draft /\ draft' = draft /\ ~editing'
          /\ (lastAction' = "commitEdit" /\ lastOutcome' = "failed") =>
                /\ editing' /\ UNCHANGED <<draft, baseline>>]_vars

ModalSessionWitness ==
    /\ lastAction = "revertEdit" /\ ~editing
    /\ txns = 1 /\ hasChanges /\ contents = json
    /\ nodeData # Undefined /\ nodeData.path = <<Key("a"), Key("b")>>
    /\ draft = baseline /\ baseline = Raw(<<"i">>)

====
